---- MODULE Spec2Model ----
(***************************************************************************)
(* A model of notebooks/grn.py: the GO-enrichment helpers (get_gene_data,  *)
(* get_GO_gene_set, get_hi_GOs, get_hyper_test_p_value, get_GO_enrichment),*)
(* the dataframe-quality helpers and download_and_preprocess_data.         *)
(*                                                                         *)
(* A dataframe is a sequence of rows; a row of a GO annotation table is a  *)
(* record [gene_name, GO_ID].  Dataframes are objects: a heap maps a       *)
(* reference to the table it currently holds, so that an in-place          *)
(* operation on an alias is visible to every holder of the reference.      *)
(***************************************************************************)
EXTENDS Integers, Sequences, FiniteSets, TLC

(* ------------------------------ bounds -------------------------------- *)
\* GO annotations of the first gene of a small annotation file
SmallAnnot == 1
\* GO annotations of the first gene of a large annotation file
ManyAnnot == 10
\* GO annotations of the second gene of a modelled annotation file
MaxAnnotB == 1
\* GO annotations of a gene in the files of the stepped calls
PipeAnnot == 2
\* extra rows of one GO ID in a hand-made gene set given to get_hi_GOs
MaxExtra == 3

(* ------------------------------ values -------------------------------- *)
\* the missing value (numpy nan) of a cell
NaN == "NaN"

\* GO identifiers, in lexicographic order
GOIds == << "GO:01", "GO:02", "GO:03", "GO:04", "GO:05", "GO:06", "GO:07",
            "GO:08", "GO:09", "GO:10", "GO:11", "GO:12", "GO:13" >>

\* the genes of a wide annotation file, one GO ID each
WideGenes == << "g01", "g02", "g03", "g04", "g05", "g06", "g07", "g08", "g09",
                "g10", "g11", "g12", "g13" >>

\* Optional values: Python's None, or a value
NoneV == [isNone |-> TRUE, v |-> <<>>]
Some(x) == [isNone |-> FALSE, v |-> x]

\* str(x).lower() on the cell values of the model
lower(x) ==
  CASE x = "A" -> "a"
    [] x = "B" -> "b"
    [] x = NaN -> "nan"
    [] OTHER   -> x

lower_strings(string_list) ==
  [i \in DOMAIN string_list |-> lower(string_list[i])]

(* ------------------------------ the heap ------------------------------ *)
\* bind reference r to table v (a new object, or an object modified in place)
Bind(h, r, v) == [x \in (DOMAIN h) \cup {r} |-> IF x = r THEN v ELSE h[x]]

\* the result of a call: the heap after it, the value returned, the lines
\* printed and the exception that ended it ("none" when it returned)
Result(h, ret, out, exc) == [heap |-> h, ret |-> ret, out |-> out, exc |-> exc]

(* --------------------------- pandas helpers --------------------------- *)
\* the elements of s at the indices in S, in order
AtIndices(s, S) ==
  [k \in 1..Cardinality(S) |->
     s[CHOOSE i \in S : Cardinality({j \in S : j <= i}) = k]]

\* DataFrame.drop_duplicates: the first occurrence of every row is kept
drop_duplicates(t) ==
  AtIndices(t, {i \in DOMAIN t : \A j \in 1..(i - 1) : t[j] # t[i]})

\* the values of column col
Column(t, col) == [i \in DOMAIN t |-> t[i][col]]

RECURSIVE UniqueFrom(_, _)
UniqueFrom(s, acc) ==
  IF s = <<>> THEN acc
  ELSE UniqueFrom(Tail(s),
                  IF \E j \in DOMAIN acc : acc[j] = Head(s)
                    THEN acc ELSE Append(acc, Head(s)))

\* Series.unique(): the distinct values in order of first appearance
Unique(s) == UniqueFrom(s, <<>>)

CountOf(s, x) == Cardinality({i \in DOMAIN s : s[i] = x})

RECURSIVE InsertByCount(_, _)
InsertByCount(sorted, e) ==
  IF sorted = <<>> THEN <<e>>
  ELSE IF Head(sorted).count >= e.count
         THEN <<Head(sorted)>> \o InsertByCount(Tail(sorted), e)
         ELSE <<e>> \o sorted

RECURSIVE SortByCount(_, _)
SortByCount(es, acc) ==
  IF es = <<>> THEN acc
  ELSE SortByCount(Tail(es), InsertByCount(acc, Head(es)))

\* value_counts of a column without missing values: one entry per distinct
\* value with its count, the largest count first (ties in order of first
\* appearance)
value_counts(s) ==
  LET u == Unique(s)
  IN  SortByCount([i \in DOMAIN u |-> [id |-> u[i], count |-> CountOf(s, u[i])]],
                  <<>>)

(* ---------------------------- get_gene_data --------------------------- *)
RECURSIVE GeneProfilesLoop(_, _, _, _, _)
GeneProfilesLoop(data, gene_name_column, test_gene_list, i, gene_profiles) ==
  IF i > Len(data) THEN gene_profiles
  ELSE LET gene == data[i][gene_name_column]
           \* a missing value equals nothing, itself included
           df_  == SelectSeq(data, LAMBDA r : r[gene_name_column] = gene
                                              /\ gene # NaN)
       IN  GeneProfilesLoop(data, gene_name_column, test_gene_list, i + 1,
             IF gene \in test_gene_list
               THEN gene_profiles \o df_
               ELSE gene_profiles)

\* get_gene_data(data, gene_name_column, test_gene_list), data a reference
get_gene_data(h, data, gene_name_column, test_gene_list) ==
  LET h1 == Bind(h, "gene_profiles", <<>>)
      h2 == Bind(h1, "gene_profiles",
                 GeneProfilesLoop(h1[data], gene_name_column, test_gene_list,
                                  1, h1["gene_profiles"]))
      h3 == [h2 EXCEPT !["gene_profiles"] = drop_duplicates(@)]
  IN  Result(h3, "gene_profiles", <<>>, "none")

(* ------------------------- load / get_GO_gene_set --------------------- *)
\* load_gene_ontology_data(): a new table read from the csv on disk
load_gene_ontology_data(h, disk, r) == Bind(h, r, disk)

\* get_GO_gene_set that lower-cases and filters the table it is given
get_GO_gene_set_InPlace(h, disk, gene_ontology_data, test_gene_list) ==
  LET god == gene_ontology_data
      low == lower_strings(Column(h[god], "gene_name"))
      h2  == [h EXCEPT ![god] =
                [i \in DOMAIN h[god] |->
                   [gene_name |-> low[i], GO_ID |-> h[god][i].GO_ID]]]
      r   == get_gene_data(h2, god, "gene_name", test_gene_list)
  IN  Result(r.heap, r.ret, <<>>, "none")

\* get_GO_gene_set(gene_ontology_data, test_gene_list): the parameter is
\* rebound to a newly loaded table before it is read
get_GO_gene_set(h, disk, gene_ontology_data, test_gene_list) ==
  LET h1  == load_gene_ontology_data(h, disk, "loaded")
      god == "loaded"
      low == lower_strings(Column(h1[god], "gene_name"))
      h2  == [h1 EXCEPT ![god] =
                [i \in DOMAIN h1[god] |->
                   [gene_name |-> low[i], GO_ID |-> h1[god][i].GO_ID]]]
      r   == get_gene_data(h2, god, "gene_name", test_gene_list)
  IN  Result(r.heap, r.ret, <<>>, "none")

(* ------------------------------ get_hi_GOs ---------------------------- *)
\* int(rows * 0.10): the double product rows * 0.10 is never below rows / 10
\* and is within 1e-15 of it, so its truncation is the integer quotient
Threshold(rows) == rows \div 10

\* get_hi_GOs without the else branch of its row check
get_hi_GOs_NoElse(GO_gene_set) ==
  LET thr == Threshold(Len(GO_gene_set))
  IN  IF Len(GO_gene_set) > 1
        THEN LET counts    == value_counts(Column(GO_gene_set, "GO_ID"))
                 above     == SelectSeq(counts, LAMBDA e : e.count > thr)
                 hi_GO_ids == [i \in DOMAIN above |-> above[i].id]
             IN  IF Len(hi_GO_ids) > 0
                   THEN [ret |-> Some(hi_GO_ids), out |-> <<>>]
                   ELSE [ret |-> NoneV, out |-> <<"No enriched functions found.">>]
        ELSE [ret |-> NoneV, out |-> <<>>]

get_hi_GOs(GO_gene_set) ==
  LET thr == Threshold(Len(GO_gene_set))
  IN  IF Len(GO_gene_set) > 1
        THEN LET counts    == value_counts(Column(GO_gene_set, "GO_ID"))
                 above     == SelectSeq(counts, LAMBDA e : e.count > thr)
                 hi_GO_ids == [i \in DOMAIN above |-> above[i].id]
             IN  IF Len(hi_GO_ids) > 0
                   THEN [ret |-> Some(hi_GO_ids), out |-> <<>>]
                   ELSE [ret |-> NoneV, out |-> <<"No enriched functions found.">>]
        ELSE [ret |-> NoneV, out |-> <<"No enriched functions found.">>]

(* ------------------------ get_hyper_test_p_value ---------------------- *)
\* binomial coefficient, 0 outside 0 <= k <= n
RECURSIVE Choose(_, _)
Choose(n, k) ==
  IF k < 0 \/ k > n THEN 0
  ELSE IF k = 0 THEN 1
  ELSE (Choose(n, k - 1) * (n - k + 1)) \div k

\* a probability is the exact fraction num / den; den = 0 stands for nan
Frac(num, den) == [num |-> num, den |-> den]

\* scipy.stats.hypergeom.pmf(k, M, n, N): M balls, n of them white, N drawn
hypergeom_pmf(k, M, n, N) ==
  IF N > M \/ n > M THEN Frac(0, 0)
  ELSE Frac(Choose(n, k) * Choose(M - n, N - k), Choose(M, N))

RECURSIVE SumNum(_)
SumNum(ps) == IF ps = <<>> THEN 0 ELSE Head(ps).num + SumNum(Tail(ps))

\* ndarray.sum() of probabilities that share a denominator
ArraySum(ps) == IF ps = <<>> THEN Frac(0, 1) ELSE Frac(SumNum(ps), Head(ps).den)

\* p < 0.05 in exact arithmetic; a comparison with nan is False
PValueCut == 20
Significant(p) == p.den > 0 /\ p.num * PValueCut < p.den

\* what the sum of an array made by np.empty and never written can be:
\* any double; one below the cut and one above stand for them
GarbageSums == {Frac(0, 1), Frac(1, 1)}

HasId(t, id) == \E i \in DOMAIN t : t[i].GO_ID = id

\* the p-value loop for one hi_GO: the locals w, w_genome, pmfs
\* and the p_val that is stored
PValueStep(gene_ontology_data, GO_gene_set, hi_GO, sum_of_empty) ==
  LET n        == Len(GO_gene_set)
      M        == Len(gene_ontology_data)
      w        == CountOf(Column(GO_gene_set, "GO_ID"), hi_GO)
      w_genome == CountOf(Column(gene_ontology_data, "GO_ID"), hi_GO)
      pmfs     == [j \in 1..(n - w + 1) |->
                     hypergeom_pmf(w + j - 1, M, w_genome, n)]
      \* hypergeom_pmfs = np.empty(n - w + 1) is summed, not pmfs
      p_val    == sum_of_empty
  IN  [pmfs |-> pmfs, p_val |-> p_val]

\* pd.merge(GO_summary_df, GO_gene_set, on = 'GO_ID', how = 'inner')
RECURSIVE MergeOnGOID(_, _)
MergeOnGOID(GO_summary_df, GO_gene_set) ==
  IF GO_summary_df = <<>> THEN <<>>
  ELSE LET l     == Head(GO_summary_df)
           match == SelectSeq(GO_gene_set, LAMBDA r : r.GO_ID = l.GO_ID)
       IN  [i \in DOMAIN match |->
              [GO_ID |-> l.GO_ID, p_val |-> l.p_val,
               gene_name |-> match[i].gene_name]]
           \o MergeOnGOID(Tail(GO_summary_df), GO_gene_set)

\* the rows of a sequence at the indices that satisfy keep
RECURSIVE Mask(_, _, _)
Mask(s, keep, i) ==
  IF i > Len(s) THEN <<>>
  ELSE (IF keep[i] THEN <<s[i]>> ELSE <<>>) \o Mask(s, keep, i + 1)

\* a test without its guard
HyperTestRuns_Always(hi_GO_ids) == TRUE

\* the guard of the test: hi_GO_ids is not None and len(hi_GO_ids) > 0
HyperTestRuns(hi_GO_ids) == ~hi_GO_ids.isNone /\ Len(hi_GO_ids.v) > 0

\* value_counts(...)[hi_GO] raises KeyError for a GO ID that is in no row
LookupFails(gene_ontology_data, GO_gene_set, ids) ==
  \E i \in DOMAIN ids :
     ~HasId(GO_gene_set, ids[i]) \/ ~HasId(gene_ontology_data, ids[i])

\* the loop over hi_GO_ids: p_vals[i] is what iteration i stores;
\* sums[i] is the sum of the i-th uninitialised array
PValueLoop(gene_ontology_data, GO_gene_set, ids, sums) ==
  [i \in DOMAIN ids |->
     PValueStep(gene_ontology_data, GO_gene_set, ids[i], sums[i]).p_val]

\* a summary of all of hi_GO_ids, the mask of the significant ones unused
SignificanceCut_KeepAll(ids, pvals) ==
  [i \in DOMAIN ids |-> [GO_ID |-> ids[i], p_val |-> pvals[i]]]

\* the significance cut: GO_summary_df of the GO IDs with p_val < 0.05
SignificanceCut(ids, pvals) ==
  LET significant_indices == [i \in DOMAIN ids |-> Significant(pvals[i])]
      significant_pvals   == Mask(pvals, significant_indices, 1)
      significant_GOs     == Mask(ids, significant_indices, 1)
  IN  [i \in DOMAIN significant_GOs |->
         [GO_ID |-> significant_GOs[i], p_val |-> significant_pvals[i]]]

\* get_hyper_test_p_value(gene_ontology_data, GO_gene_set, hi_GO_ids)
get_hyper_test_p_value(gene_ontology_data, GO_gene_set, hi_GO_ids, sums) ==
  IF HyperTestRuns(hi_GO_ids)
    THEN LET ids    == hi_GO_ids.v
             pvals  == PValueLoop(gene_ontology_data, GO_gene_set, ids, sums)
             GO_summary_df == SignificanceCut(ids, pvals)
             summary_df    == MergeOnGOID(GO_summary_df, GO_gene_set)
         IN  IF LookupFails(gene_ontology_data, GO_gene_set, ids)
               THEN [ret |-> NoneV, out |-> <<>>, exc |-> "KeyError",
                     p_vals |-> <<>>]
               ELSE [ret |-> Some(summary_df),
                     out |-> <<"Enrichment test ran succesfully!">>,
                     exc |-> "none", p_vals |-> pvals]
    ELSE [ret |-> NoneV, out |-> <<"Enrichment test did not run.">>,
          exc |-> "none", p_vals |-> <<>>]

(* ------------------------ dataframe-quality helpers ------------------- *)
\* the columns of a GO annotation table; both hold strings (dtype object)
Columns == <<"gene_name", "GO_ID">>
dtype(col) == "object"

\* every cell value of the model, in the order Python sorts strings
SortedValues ==
  <<"A", "B">> \o GOIds \o <<"a", "b", "c">> \o WideGenes \o <<"nan">>
Rank(x) == CHOOSE i \in DOMAIN SortedValues : SortedValues[i] = x

RECURSIVE InsertKeyed(_, _)
InsertKeyed(sorted, e) ==
  IF sorted = <<>> THEN <<e>>
  ELSE IF e.key < Head(sorted).key
         THEN <<e>> \o sorted
         ELSE <<Head(sorted)>> \o InsertKeyed(Tail(sorted), e)

RECURSIVE SortKeyed(_, _)
SortKeyed(es, acc) ==
  IF es = <<>> THEN acc
  ELSE SortKeyed(Tail(es), InsertKeyed(acc, Head(es)))

\* a stable ascending sort of rows by the integer key(row)
SortRows(rows, key(_)) ==
  LET keyed  == [i \in DOMAIN rows |-> [key |-> key(rows[i]), row |-> rows[i]]]
      sorted == SortKeyed(keyed, <<>>)
  IN  [i \in DOMAIN sorted |-> sorted[i].row]

\* the percentages of one table share the denominator len(data), so their
\* order is the order of the numerators (all are nan, and tie, when it is 0)
PctKey(p) == IF p.den = 0 THEN 0 ELSE p.num

\* get_df_missing_columns(data), data a reference
get_df_missing_columns(h, data) ==
  LET t == h[data]
      pct(col) == Frac(CountOf(Column(t, col), NaN) * 100, Len(t))
      df_missing_values ==
        SortRows([i \in DOMAIN Columns |->
                    [index |-> Columns[i], pct |-> pct(Columns[i])]],
                 LAMBDA a : 0 - PctKey(a.pct))
      df_feature_type ==
        [i \in DOMAIN Columns |->
           [index |-> Columns[i], feature_type |-> dtype(Columns[i])]]
      merged ==
        [i \in DOMAIN df_feature_type |->
           LET m == CHOOSE j \in DOMAIN df_missing_values :
                      df_missing_values[j].index = df_feature_type[i].index
           IN  [index |-> df_feature_type[i].index,
                feature_type |-> df_feature_type[i].feature_type,
                pct |-> df_missing_values[m].pct]]
      h1 == Bind(h, "missing_cols_df", merged)
      h2 == [h1 EXCEPT !["missing_cols_df"] =
               SortRows(@, LAMBDA a : PctKey(a.pct))]
  IN  Result(h2, "missing_cols_df", <<>>, "none")

\* find_constant_features(data)
find_constant_features(h, data) ==
  LET t == h[data]
      const_features ==
        SelectSeq(Columns, LAMBDA c : Len(Unique(Column(t, c))) < 2)
  IN  Result(h, const_features, <<>>, "none")

\* np.array_equal on two columns: nan differs from nan
array_equal(ia, ja) ==
  /\ Len(ia) = Len(ja)
  /\ \A i \in DOMAIN ia : ia[i] = ja[i] /\ ia[i] # NaN

\* duplicate_columns(frame): the columns equal to a later column of the
\* same dtype
duplicate_columns(h, frame) ==
  LET t  == h[frame]
      cs == Columns
      isDup(i) == \E j \in (i + 1)..Len(cs) :
                     array_equal(Column(t, cs[i]), Column(t, cs[j]))
      dups == Mask(cs, [i \in DOMAIN cs |-> isDup(i)], 1)
  IN  Result(h, dups, <<>>, "none")

\* get_df_stats(df)
get_df_stats(h, df) ==
  LET r1 == get_df_missing_columns(h, df)
      r2 == find_constant_features(r1.heap, df)
      r3 == duplicate_columns(r2.heap, df)
  IN  Result(r3.heap, <<r1.heap[r1.ret], r2.ret, r3.ret>>, <<>>, "none")

\* the sorted distinct values of a column (LabelEncoder.classes_)
Classes(values) ==
  SortRows(Unique(values), LAMBDA a : Rank(a))

\* col_encoding(df, column): row i is the unit vector of the label of cell i
col_encoding(t, column) ==
  LET values  == Column(t, column)
      classes == Classes(values)
      label(x) == CHOOSE k \in DOMAIN classes : classes[k] = x
  IN  [i \in DOMAIN values |->
         [k \in DOMAIN classes |-> IF label(values[i]) = k THEN 1 ELSE 0]]

RECURSIVE OneHotLoop(_, _, _)
OneHotLoop(t, cat_col_list, df_hot) ==
  IF cat_col_list = <<>> THEN df_hot
  ELSE LET col == Head(cat_col_list)
           encoded_matrix == col_encoding(t, col)
           df_ == [i \in DOMAIN encoded_matrix |->
                     [k \in DOMAIN encoded_matrix[i] |->
                        [column |-> <<col, k - 1>>, v |-> encoded_matrix[i][k]]]]
       IN  OneHotLoop(t, Tail(cat_col_list),
                      [i \in DOMAIN t |->
                         (IF i \in DOMAIN df_hot THEN df_hot[i] ELSE <<>>)
                         \o df_[i]])

\* one_hot_df(df, cat_col_list); the encoders raise on an empty column
\* and on a column that mixes strings with the missing value
one_hot_df(h, df, cat_col_list) ==
  LET t == h[df]
      h1 == Bind(h, "df_hot", <<>>)
  IN  IF cat_col_list = <<>> THEN Result(h1, "df_hot", <<>>, "none")
      ELSE IF t = <<>> THEN Result(h1, "df_hot", <<>>, "ValueError")
      ELSE IF \E i \in DOMAIN cat_col_list, j \in DOMAIN t :
                 t[j][cat_col_list[i]] = NaN
             THEN Result(h1, "df_hot", <<>>, "TypeError")
      ELSE Result(Bind(h1, "df_hot", OneHotLoop(t, cat_col_list, <<>>)),
                  "df_hot", <<>>, "none")

(* --------------------------- get_GO_enrichment ------------------------ *)
\* get_GO_enrichment(gene_list): enrichment_report is bound to a local and
\* the function ends without a return statement, so it returns None
get_GO_enrichment(h, disk, gene_list, sums) ==
  LET h1  == load_gene_ontology_data(h, disk, "go")
      r   == get_gene_data(h1, "go", "gene_name", gene_list)
      go_gene_set == r.heap[r.ret]
      hiR == get_hi_GOs(go_gene_set)
      enrichment_report ==
        get_hyper_test_p_value(r.heap["go"], go_gene_set, hiR.ret, sums)
  IN  [heap |-> r.heap, ret |-> NoneV, out |-> hiR.out \o enrichment_report.out,
       exc |-> enrichment_report.exc, report |-> enrichment_report]

\* the hi_go_ids of get_GO_enrichment(gene_list)
EnrichmentHi(h, disk, gene_list) ==
  LET h1 == load_gene_ontology_data(h, disk, "go")
      r  == get_gene_data(h1, "go", "gene_name", gene_list)
  IN  get_hi_GOs(r.heap[r.ret]).ret

(* ------------------------------- the state ---------------------------- *)
VARIABLES
  file,     \* the table in ../data/GO_annotations_ecoli.csv
  heap,     \* the caller's dataframes: caller_go (an annotation table) and
            \* caller_gs (the gene set it keeps from the last filtering call)
  hi,       \* the caller's hi_GO_ids
  ret,      \* what the last call returned
  p_vals,   \* the p_vals array of the last get_hyper_test_p_value call
  out,      \* the lines the last call printed
  exc,      \* the exception that ended the last call, or "none"
  last,     \* the last call: its function and its gene list
  pc,       \* where a stepped call of get_GO_enrichment stands
  loc,      \* the locals of that call
  stages,   \* the stages of the enrichment pipeline that call has run
  dl        \* the last call of download_and_preprocess_data and its result

sessVars == <<file, heap, hi, ret, p_vals, out, exc, last>>
pipeVars == <<pc, loc, stages>>
vars == <<file, heap, hi, ret, p_vals, out, exc, last, pc, loc, stages, dl>>

(* ------------------------------- the inputs --------------------------- *)
GORow(gene, id) == [gene_name |-> gene, GO_ID |-> id]

\* the rows as they are, or followed by a repeat of the first row and by a
\* row whose gene name is missing
Variant(base, variant) ==
  IF variant = "messy"
    THEN (IF base = <<>> THEN base ELSE Append(base, Head(base)))
         \o <<GORow(NaN, GOIds[1])>>
    ELSE base

\* a small annotation table: gene "A" with the first ka GO IDs, gene "b"
\* with the first kb
GOTable(ka, kb, variant) ==
  Variant([i \in 1..ka |-> GORow("A", GOIds[i])]
          \o [i \in 1..kb |-> GORow("b", GOIds[i])], variant)

\* a wide annotation table: ManyAnnot genes with a GO ID of their own each,
\* gene "b" with the first kb GO IDs
WideTable(kb, variant) ==
  Variant([i \in 1..ManyAnnot |-> GORow(WideGenes[i], GOIds[i])]
          \o [i \in 1..kb |-> GORow("b", GOIds[i])], variant)

Variants == {"plain", "messy"}

GOFiles ==
  {GOTable(ka, kb, variant) :
     ka \in 0..SmallAnnot, kb \in 0..MaxAnnotB, variant \in Variants}
  \cup {WideTable(kb, variant) : kb \in 0..MaxAnnotB, variant \in Variants}

\* a table of the caller's own: the file's rows and an annotation of gene "c"
CallerEdit(t) == Append(t, GORow("c", GOIds[1]))

GeneLists ==
  {{"a"}, {"c"}, {WideGenes[i] : i \in 1..ManyAnnot} \cup {"A", "b"}}

\* hi_GO_ids arrays a caller builds by hand
HandMadeHi == {<<>>, <<GOIds[2], GOIds[1]>>}

CatColLists == {<<>>, <<"gene_name", "GO_ID">>}

CallerRefs == {"caller_go", "caller_gs"}
Callers(h) == [r \in CallerRefs |-> h[r]]

\* no stepped call and no download in progress
NoLocals == [go |-> <<>>, go_gene_set |-> <<>>, hi_go_ids |-> NoneV,
             p_vals |-> <<>>, GO_summary_df |-> <<>>,
             enrichment_report |-> NoneV]
NoDownload == [called |-> FALSE]

Init ==
  /\ file \in GOFiles
  /\ \E go \in {file, CallerEdit(file)} :
        heap = [caller_go |-> go, caller_gs |-> <<>>]
  /\ hi = NoneV
  /\ ret = NoneV
  /\ p_vals = <<>>
  /\ out = <<>>
  /\ exc = "none"
  /\ last = [fn |-> "start", list |-> {}]
  /\ pc = "idle" /\ loc = NoLocals /\ stages = <<>>
  /\ dl = NoDownload

(* ------------------------------- the calls ---------------------------- *)
\* GO_gene_set = get_gene_data(go, 'gene_name', gene_list)
CallGetGeneData ==
  \E list \in GeneLists :
    LET r == get_gene_data(heap, "caller_go", "gene_name", list)
    IN  /\ heap' = [Callers(r.heap) EXCEPT !["caller_gs"] = r.heap[r.ret]]
        /\ ret' = Some(r.heap[r.ret])
        /\ out' = r.out /\ exc' = r.exc
        /\ last' = [fn |-> "get_gene_data", list |-> list]
        /\ p_vals' = <<>>
        /\ UNCHANGED <<file, hi, pc, loc, stages, dl>>

\* GO_gene_set = get_GO_gene_set(go, gene_list)
CallGetGOGeneSet ==
  \E list \in GeneLists :
    LET r == get_GO_gene_set(heap, file, "caller_go", list)
    IN  /\ heap' = [Callers(r.heap) EXCEPT !["caller_gs"] = r.heap[r.ret]]
        /\ ret' = Some(r.heap[r.ret])
        /\ out' = r.out /\ exc' = r.exc
        /\ last' = [fn |-> "get_GO_gene_set", list |-> list]
        /\ p_vals' = <<>>
        /\ UNCHANGED <<file, hi, pc, loc, stages, dl>>

\* hi_GO_ids = get_hi_GOs(GO_gene_set)
CallGetHiGOs ==
  LET r == get_hi_GOs(heap["caller_gs"])
  IN  /\ hi' = r.ret
      /\ ret' = r.ret
      /\ out' = r.out /\ exc' = "none"
      /\ last' = [fn |-> "get_hi_GOs", list |-> {}]
      /\ p_vals' = <<>>
      /\ UNCHANGED <<file, heap, pc, loc, stages, dl>>

\* the caller makes a hi_GO_ids array of its own
SetHi ==
  \E ids \in HandMadeHi :
    /\ hi' = Some(ids)
    /\ last' = [fn |-> "caller", list |-> {}]
    /\ ret' = NoneV /\ out' = <<>> /\ exc' = "none"
    /\ p_vals' = <<>>
    /\ UNCHANGED <<file, heap, pc, loc, stages, dl>>

\* summary_df = get_hyper_test_p_value(go, GO_gene_set, hi_GO_ids)
CallHyperTest ==
  \E sums \in [1..Len(hi.v) -> GarbageSums] :
    LET r == get_hyper_test_p_value(heap["caller_go"], heap["caller_gs"], hi, sums)
    IN  /\ ret' = r.ret
        /\ p_vals' = r.p_vals
        /\ out' = r.out /\ exc' = r.exc
        /\ last' = [fn |-> "get_hyper_test_p_value", list |-> {}]
        /\ UNCHANGED <<file, heap, hi, pc, loc, stages, dl>>

\* get_GO_enrichment(gene_list)
CallGetGOEnrichment ==
  \E list \in GeneLists :
    LET k == Len(EnrichmentHi(heap, file, list).v)
    IN  \E sums \in [1..k -> GarbageSums] :
          LET r == get_GO_enrichment(heap, file, list, sums)
          IN  /\ heap' = Callers(r.heap)
              /\ ret' = r.ret
              /\ out' = r.out /\ exc' = r.exc
              /\ last' = [fn |-> "get_GO_enrichment", list |-> list]
              /\ p_vals' = <<>>
              /\ UNCHANGED <<file, hi, pc, loc, stages, dl>>

\* a call of a dataframe-quality helper on the caller's annotation table
Called(r, value, fn) ==
  /\ heap' = Callers(r.heap)
  /\ ret' = Some(value)
  /\ out' = r.out /\ exc' = r.exc
  /\ last' = [fn |-> fn, list |-> {}]
  /\ p_vals' = <<>>
  /\ UNCHANGED <<file, hi, pc, loc, stages, dl>>

CallGetDfMissingColumns ==
  LET r == get_df_missing_columns(heap, "caller_go")
  IN  Called(r, r.heap[r.ret], "get_df_missing_columns")

CallFindConstantFeatures ==
  LET r == find_constant_features(heap, "caller_go")
  IN  Called(r, r.ret, "find_constant_features")

CallDuplicateColumns ==
  LET r == duplicate_columns(heap, "caller_go")
  IN  Called(r, r.ret, "duplicate_columns")

CallGetDfStats ==
  LET r == get_df_stats(heap, "caller_go")
  IN  Called(r, r.ret, "get_df_stats")

CallOneHotDf ==
  \E cat_col_list \in CatColLists :
    LET r == one_hot_df(heap, "caller_go", cat_col_list)
    IN  Called(r, r.heap[r.ret], "one_hot_df")

Next ==
  \/ CallGetGeneData
  \/ CallGetGOGeneSet
  \/ CallGetHiGOs
  \/ SetHi
  \/ CallHyperTest
  \/ CallGetGOEnrichment
  \/ CallGetDfMissingColumns
  \/ CallFindConstantFeatures
  \/ CallDuplicateColumns
  \/ CallGetDfStats
  \/ CallOneHotDf

Spec == Init /\ [][Next]_vars

(* ------------------ get_hi_GOs on hand-made gene sets ----------------- *)
\* a gene set with one row for each of the first k GO IDs, then e1 more
\* rows of the first GO ID and e2 more rows of the second
HiInput(k, e1, e2) ==
  [i \in 1..k |-> GORow("b", GOIds[i])]
  \o [i \in 1..e1 |-> GORow("a", GOIds[1])]
  \o [i \in 1..e2 |-> GORow("a", GOIds[2])]

HiInputs ==
  {HiInput(k, e1, e2) : k \in 0..ManyAnnot, e1 \in 0..MaxExtra, e2 \in 0..MaxExtra}

InitHi ==
  /\ file = <<>>
  /\ \E gs \in HiInputs : heap = [caller_go |-> <<>>, caller_gs |-> gs]
  /\ hi = NoneV
  /\ ret = NoneV
  /\ p_vals = <<>>
  /\ out = <<>>
  /\ exc = "none"
  /\ last = [fn |-> "start", list |-> {}]
  /\ pc = "idle" /\ loc = NoLocals /\ stages = <<>>
  /\ dl = NoDownload

SpecHi == InitHi /\ [][CallGetHiGOs]_vars

(* ------------------- get_GO_enrichment, stage by stage ---------------- *)
\* the stages of the enrichment pipeline, in the order of the code
FullOrder == <<"filter", "threshold", "p-value", "cut", "merge">>

\* the annotation files and gene lists of the stepped calls
PipeFiles ==
  {GOTable(ka, kb, variant) :
     ka \in 0..PipeAnnot, kb \in 0..PipeAnnot, variant \in Variants}
  \cup {WideTable(kb, variant) : kb \in 0..PipeAnnot, variant \in Variants}

PipeLists == GeneLists \cup {{}, {"A"}, {"b"}}

InitPipe ==
  /\ file \in PipeFiles
  /\ heap = [caller_go |-> <<>>, caller_gs |-> <<>>]
  /\ hi = NoneV
  /\ ret = NoneV
  /\ p_vals = <<>>
  /\ out = <<>>
  /\ exc = "none"
  /\ \E gene_list \in PipeLists :
        last = [fn |-> "get_GO_enrichment", list |-> gene_list]
  /\ pc = "start" /\ loc = NoLocals /\ stages = <<>>
  /\ dl = NoDownload

PipeFrame == UNCHANGED <<file, heap, hi, p_vals, exc, last, dl>>

\* go = load_gene_ontology_data()
StepLoad ==
  /\ pc = "start"
  /\ loc' = [loc EXCEPT !.go = load_gene_ontology_data(<<>>, file, "go")["go"]]
  /\ pc' = "loaded"
  /\ UNCHANGED <<ret, out, stages>>
  /\ PipeFrame

\* go_gene_set = get_gene_data(go, 'gene_name', gene_list)
StepFilter ==
  /\ pc = "loaded"
  /\ LET r == get_gene_data([go |-> loc.go], "go", "gene_name", last.list)
     IN  loc' = [loc EXCEPT !.go = r.heap["go"],
                            !.go_gene_set = r.heap[r.ret]]
  /\ stages' = Append(stages, "filter")
  /\ pc' = "filtered"
  /\ UNCHANGED <<ret, out>>
  /\ PipeFrame

\* hi_go_ids = get_hi_GOs(go_gene_set)
StepThreshold ==
  /\ pc = "filtered"
  /\ LET r == get_hi_GOs(loc.go_gene_set)
     IN  /\ loc' = [loc EXCEPT !.hi_go_ids = r.ret]
         /\ out' = out \o r.out
  /\ stages' = Append(stages, "threshold")
  /\ pc' = "thresholded"
  /\ UNCHANGED ret
  /\ PipeFrame

\* get_hyper_test_p_value: the loop that fills p_vals
StepPValue ==
  /\ pc = "thresholded"
  /\ HyperTestRuns(loc.hi_go_ids)
  /\ \E sums \in [1..Len(loc.hi_go_ids.v) -> GarbageSums] :
        loc' = [loc EXCEPT !.p_vals =
                  PValueLoop(loc.go, loc.go_gene_set, loc.hi_go_ids.v, sums)]
  /\ stages' = Append(stages, "p-value")
  /\ pc' = "pvalued"
  /\ UNCHANGED <<ret, out>>
  /\ PipeFrame

\* get_hyper_test_p_value: the else branch of its guard
StepSkipTest ==
  /\ pc = "thresholded"
  /\ ~HyperTestRuns(loc.hi_go_ids)
  /\ out' = Append(out, "Enrichment test did not run.")
  /\ loc' = [loc EXCEPT !.enrichment_report = NoneV]
  /\ pc' = "tested"
  /\ UNCHANGED <<ret, stages>>
  /\ PipeFrame

\* get_hyper_test_p_value: the p_vals below 0.05 and their GO IDs
StepCut ==
  /\ pc = "pvalued"
  /\ loc' = [loc EXCEPT !.GO_summary_df =
               SignificanceCut(loc.hi_go_ids.v, loc.p_vals)]
  /\ stages' = Append(stages, "cut")
  /\ pc' = "cut"
  /\ UNCHANGED <<ret, out>>
  /\ PipeFrame

\* get_hyper_test_p_value: the merge with the gene set, and its return
StepMerge ==
  /\ pc = "cut"
  /\ loc' = [loc EXCEPT !.enrichment_report =
               Some(MergeOnGOID(loc.GO_summary_df, loc.go_gene_set))]
  /\ out' = Append(out, "Enrichment test ran succesfully!")
  /\ stages' = Append(stages, "merge")
  /\ pc' = "tested"
  /\ UNCHANGED ret
  /\ PipeFrame

\* the end of get_GO_enrichment: there is no return statement
StepReturn ==
  /\ pc = "tested"
  /\ ret' = NoneV
  /\ pc' = "done"
  /\ UNCHANGED <<loc, out, stages>>
  /\ PipeFrame

NextPipe ==
  \/ StepLoad
  \/ StepFilter
  \/ StepThreshold
  \/ StepPValue
  \/ StepSkipTest
  \/ StepCut
  \/ StepMerge
  \/ StepReturn

SpecPipe == InitPipe /\ [][NextPipe]_vars

(* -------------------- download_and_preprocess_data -------------------- *)
\* a dataframe read from a delimited file: its column names and its rows,
\* each row a sequence of cells in the order of the columns
Frame(cols, rows) == [cols |-> cols, rows |-> rows]

\* a rename that was left out
rename_columns_Noop(cols) == cols

\* df.rename(columns = {'Gene name': 'gene name'}, inplace = True): a column
\* that is absent is ignored, nothing is raised
rename_columns(cols) ==
  [i \in DOMAIN cols |-> IF cols[i] = "Gene name" THEN "gene name" ELSE cols[i]]

\* try: df.rename(...) except: pass -- a rename that raised would leave the
\* columns as they were and the routine would go on
TryRename(cols) ==
  LET r == [cols |-> rename_columns(cols), exc |-> "none"]
  IN  IF r.exc = "none" THEN r.cols ELSE cols

\* df.iloc[:, a:b]
ILocCols(df, a, b) ==
  Frame(SubSeq(df.cols, a, b),
        [i \in DOMAIN df.rows |-> SubSeq(df.rows[i], a, b)])

\* SimpleImputer(strategy = 'median') then StandardScaler: a missing cell
\* takes the median of its column, every cell is then centred and scaled
ImputeScale(cell) == IF cell = NaN THEN "scaled median" ELSE "scaled"

\* pca.inverse_transform(pca.fit_transform(scaled_data))
Reconstruct(cell) == <<"denoised", cell>>

MapCells(df, f(_)) ==
  Frame(df.cols,
        [i \in DOMAIN df.rows |->
           [j \in DOMAIN df.rows[i] |-> f(df.rows[i][j])]])

\* pd.concat([annot, reconstructed_df], axis = 1)
ConcatCols(a, b) ==
  Frame(a.cols \o b.cols, [i \in DOMAIN a.rows |-> a.rows[i] \o b.rows[i]])

ColumnsNamed(df, name) == {j \in DOMAIN df.cols : df.cols[j] = name}

\* df[name] = df[name].apply(lambda x: x.lower())
LowerColumn(df, name) ==
  Frame(df.cols,
        [i \in DOMAIN df.rows |->
           [j \in DOMAIN df.rows[i] |->
              IF df.cols[j] = name THEN lower(df.rows[i][j])
                                   ELSE df.rows[i][j]]])

\* the number of annotation columns
AnnotationColumns == 3

\* download_and_preprocess_data(org, data_dir, output_path = output_path)
\* with a data_dir whose file reads as the dataframe read; disk is the set
\* of files written
download_and_preprocess_data(org, read, output_path) ==
  LET df      == Frame(TryRename(read.cols), read.rows)
      annot   == ILocCols(df, 1, AnnotationColumns)
      data    == ILocCols(df, AnnotationColumns + 1, Len(df.cols))
      scaled_data   == MapCells(data, ImputeScale)
      reconstructed == MapCells(scaled_data, Reconstruct)
      reconstructed_df == Frame(data.cols, reconstructed.rows)
      denoised_df   == ConcatCols(annot, reconstructed_df)
      named   == ColumnsNamed(denoised_df, "gene name")
      before  == <<"read", "rename", "impute and scale", "pca", "concat">>
  IN  CASE named = {} ->
             [exc |-> "KeyError", steps |-> before, disk |-> {}]
        [] Cardinality(named) > 1 ->
             [exc |-> "AttributeError", steps |-> before, disk |-> {}]
        [] OTHER ->
             [exc |-> "none", steps |-> before \o <<"lower", "write">>,
              disk |-> {[path |-> <<output_path, "denoised_", org, ".csv">>,
                         table |-> LowerColumn(denoised_df, "gene name")]}]

\* the expression files: three annotation columns with distinct names, two
\* data columns of numbers, one of them with a missing cell or not
AnnotNames == {"LocusTag", "Gene name", "gene name", "Geneid"}
DataCols == <<"c1", "c2">>
Headers ==
  {h \in [1..AnnotationColumns -> AnnotNames] :
     \A i, j \in DOMAIN h : i # j => h[i] # h[j]}
ExpressionFiles ==
  {Frame(h \o DataCols,
         << <<"A", "A", "A", first, "num">>, <<"b", "b", "b", "num", "num">> >>) :
     h \in Headers, first \in {"num", NaN}}
Organisms == {"ecoli", "bsubt"}
OutputPaths == {"~/Downloads/", "out/"}

InitDL ==
  /\ file = <<>>
  /\ heap = [caller_go |-> <<>>, caller_gs |-> <<>>]
  /\ hi = NoneV
  /\ ret = NoneV
  /\ p_vals = <<>>
  /\ out = <<>>
  /\ exc = "none"
  /\ last = [fn |-> "start", list |-> {}]
  /\ pc = "idle" /\ loc = NoLocals /\ stages = <<>>
  /\ \E org \in Organisms, read \in ExpressionFiles, output_path \in OutputPaths :
        dl = [called |-> FALSE, org |-> org, read |-> read,
              output_path |-> output_path,
              exc |-> "none", steps |-> <<>>, disk |-> {}]

CallDownloadAndPreprocess ==
  /\ ~dl.called
  /\ LET r == download_and_preprocess_data(dl.org, dl.read, dl.output_path)
     IN  dl' = [dl EXCEPT !.called = TRUE, !.exc = r.exc, !.steps = r.steps,
                          !.disk = r.disk]
  /\ UNCHANGED <<file, heap, hi, ret, p_vals, out, exc, last, pc, loc, stages>>

SpecDL == InitDL /\ [][CallDownloadAndPreprocess]_vars

(* =============================== claims =============================== *)
RowSet(t) == {t[i] : i \in DOMAIN t}

\* the rows of table t whose gene is in the list
RowsOf(t, gene_list) == {r \in RowSet(t) : r.gene_name \in gene_list}

\* no GO ID is enriched in a set of distinct rows: at most one row, or no
\* GO ID in more rows than a tenth of them, rounded down
NothingEnriched(S) ==
  \/ Cardinality(S) <= 1
  \/ \A r \in S :
        Cardinality({q \in S : q.GO_ID = r.GO_ID}) <= Cardinality(S) \div 10

IdsOf(opt) == IF opt.isNone THEN {} ELSE {opt.v[i] : i \in DOMAIN opt.v}

IsPrefix(s, t) == Len(s) <= Len(t) /\ \A i \in DOMAIN s : s[i] = t[i]

FracEq(a, b) == a.den > 0 /\ b.den > 0 /\ a.num * b.den = b.num * a.den

\* C3: the p-value stored for every GO ID of hi_GO_ids is the sum of the
\* hypergeometric PMF over k = w..n, the sum of the pmfs array.
C3_PValueIsTailSum ==
  (last.fn = "get_hyper_test_p_value" /\ ~ret.isNone) =>
    \A i \in DOMAIN p_vals :
      FracEq(p_vals[i],
             ArraySum(PValueStep(heap["caller_go"], heap["caller_gs"],
                                 hi.v[i], p_vals[i]).pmfs))

(* ---- C4 ---- *)
\* C4: get_hi_GOs returns exactly the GO IDs whose count c in a gene set of
\* n rows satisfies c > 0.10 * n, for every n.
C4_AboveTenPercent ==
  last.fn = "get_hi_GOs" =>
    LET gs == heap["caller_gs"]
        ids == Column(gs, "GO_ID")
    IN  IdsOf(ret) = {ids[i] : i \in {j \in DOMAIN ids :
                                       10 * CountOf(ids, ids[j]) > Len(gs)}}

(* ---- C5 ---- *)
\* C5: no call mutates a table passed to it: every call leaves the caller's
\* annotation table as it was, and every call but the two filtering calls,
\* whose result the caller keeps as its gene set, leaves the gene set as it
\* was.
C5_InputsUntouched ==
  [][/\ heap'["caller_go"] = heap["caller_go"]
     /\ last'.fn \notin {"get_gene_data", "get_GO_gene_set"}
          => heap'["caller_gs"] = heap["caller_gs"]]_vars

\* get_GO_gene_set has returned lower-cased rows to a caller whose own table
\* still holds the upper-case gene name
C5_Witness ==
  /\ last.fn = "get_GO_gene_set"
  /\ \E r \in RowSet(heap["caller_go"]) : r.gene_name = "A"
  /\ \E r \in RowSet(ret.v) : r.gene_name = "a"

(* ---- C7 ---- *)
\* C7: get_GO_gene_set returns the rows of the gene_ontology_data argument,
\* gene names lower-cased, whose gene_name is in test_gene_list.
C7_FiltersItsArgument ==
  last.fn = "get_GO_gene_set" =>
    RowSet(ret.v) =
      {r \in {[gene_name |-> lower(q.gene_name), GO_ID |-> q.GO_ID] :
                q \in RowSet(heap["caller_go"])} : r.gene_name \in last.list}

(* ---- C8 ---- *)
\* C8: for every gene set of one row or more in which a GO ID's count
\* exceeds int(0.10 * rows), get_hi_GOs returns the non-empty array of
\* those GO IDs and prints nothing.
C8_OnlyEmptyIsNothing ==
  LET gs  == heap["caller_gs"]
      ids == Column(gs, "GO_ID")
      over == {ids[i] : i \in {j \in DOMAIN ids :
                                 CountOf(ids, ids[j]) > Len(gs) \div 10}}
  IN  (last.fn = "get_hi_GOs" /\ Len(gs) >= 1 /\ over # {}) =>
        (~ret.isNone /\ IdsOf(ret) = over /\ out = <<>>)

(* ---- C9 ---- *)
\* C9: every row of a returned summary has a GO_ID of hi_GO_ids, a p_val
\* below 0.05 and the gene of a GO_gene_set row of that GO_ID; every
\* GO_gene_set row whose GO_ID is in hi_GO_ids with a stored p-value below
\* 0.05 is in it; and a test that ran returns a table, an empty one when no
\* GO ID is significant, never None.
C9_SummaryRows ==
  last.fn = "get_hyper_test_p_value" =>
    /\ (HyperTestRuns(hi) /\ exc = "none") => ~ret.isNone
    /\ ~ret.isNone =>
         /\ \A row \in RowSet(ret.v) :
              /\ Significant(row.p_val)
              /\ \E i \in DOMAIN hi.v :
                    hi.v[i] = row.GO_ID /\ p_vals[i] = row.p_val
              /\ \E r \in RowSet(heap["caller_gs"]) :
                    r.GO_ID = row.GO_ID /\ r.gene_name = row.gene_name
         /\ \A r \in RowSet(heap["caller_gs"]) : \A i \in DOMAIN hi.v :
              (hi.v[i] = r.GO_ID /\ Significant(p_vals[i])) =>
                [GO_ID |-> r.GO_ID, p_val |-> p_vals[i],
                 gene_name |-> r.gene_name] \in RowSet(ret.v)
         /\ (\A i \in DOMAIN hi.v : ~Significant(p_vals[i])) => ret.v = <<>>

\* a summary with rows, returned by a test in which another GO ID of
\* hi_GO_ids was not significant
C9_Witness ==
  /\ last.fn = "get_hyper_test_p_value" /\ ~ret.isNone
  /\ ret.v # <<>>
  /\ \E i \in DOMAIN p_vals : ~Significant(p_vals[i])

GeneNameColumns(read) ==
  {j \in 1..AnnotationColumns : read.cols[j] \in {"Gene name", "gene name"}}

====
